---- MODULE Spec2Model ----
(***************************************************************************)
(* Model of the actix-clean-path middleware (src/src/lib.rs).              *)
(*                                                                         *)
(* A string is a sequence of one-character strings.  A request is the      *)
(* path-and-query string of its URI (origin form, as in the crate's        *)
(* tests); the middleware's `call` either hands the request to the         *)
(* wrapped service or answers with a permanent redirect whose Location is  *)
(* the cleaned path with the original query reattached.  A client may      *)
(* follow the redirect, which sends the Location back through `call`.      *)
(***************************************************************************)
EXTENDS Integers, Sequences, FiniteSets

VARIABLES pc, uri, outcome, location, forwarded, hops

vars == <<pc, uri, outcome, location, forwarded, hops>>

(***************************************************************************)
(* Bounds of the exploration.                                              *)
(***************************************************************************)
MaxLen == 6
MaxHops == 2

Alphabet == {"/", ".", "a"}

RECURSIVE Strings(_)
Strings(n) ==
    IF n = 0 THEN {<<>>}
    ELSE LET shorter == Strings(n - 1)
         IN  shorter \cup {Append(s, c) : s \in shorter, c \in Alphabet}

\* Request paths: every string over Alphabet of length 1..MaxLen that begins
\* with the separator.
Paths == {p \in Strings(MaxLen) : Len(p) >= 1 /\ p[1] = "/"}

\* Option<&str> of the query: None, or Some(text after the first '?').
None == [some |-> FALSE, val |-> <<>>]
Some(q) == [some |-> TRUE, val |-> q]

Queries ==
    {None, Some(<<>>), Some(<<"a">>), Some(<<"/", "/", ".">>), Some(<<"a", "?", ".">>)}

(***************************************************************************)
(* str helpers used by the source.                                         *)
(***************************************************************************)
\* str::contains(pat)
Contains(s, pat) ==
    \E i \in 1..(Len(s) - Len(pat) + 1) : SubSeq(s, i, i + Len(pat) - 1) = pat

\* str::ends_with(c)
ends_with(s, c) == Len(s) > 0 /\ s[Len(s)] = c

\* str::find(c): index of the first occurrence, 0 when there is none
\* (indices are 1-based).
find(s, c) ==
    IF \E i \in 1..Len(s) : s[i] = c
    THEN CHOOSE i \in 1..Len(s) : s[i] = c /\ \A j \in 1..(i - 1) : s[j] # c
    ELSE 0

\* str::rfind(c): index of the last occurrence, 0 when there is none.
rfind(s, c) ==
    IF \E i \in 1..Len(s) : s[i] = c
    THEN CHOOSE i \in 1..Len(s) : s[i] = c /\ \A j \in (i + 1)..Len(s) : s[j] # c
    ELSE 0

\* str::trim_end_matches(c)
RECURSIVE trim_end_matches(_, _)
trim_end_matches(s, c) ==
    IF ends_with(s, c) THEN trim_end_matches(SubSeq(s, 1, Len(s) - 1), c) ELSE s

\* str::split(c): the segments between separators; always at least one.
RECURSIVE split(_, _)
split(s, c) ==
    LET i == find(s, c)
    IN  IF i = 0 THEN <<s>>
        ELSE <<SubSeq(s, 1, i - 1)>> \o split(SubSeq(s, i + 1, Len(s)), c)

\* [&str]::join(c)
RECURSIVE join(_, _)
join(segs, c) ==
    IF segs = <<>> THEN <<>>
    ELSE IF Len(segs) = 1 THEN segs[1]
    ELSE segs[1] \o <<c>> \o join(Tail(segs), c)

(***************************************************************************)
(* has_ext                                                                 *)
(***************************************************************************)
\* Variant: the suffix after the last '.' may be empty.
has_ext_AllowEmpty(path) ==
    LET index == rfind(path, ".")
    IN  IF index = 0 THEN FALSE
        ELSE ~Contains(SubSeq(path, index + 1, Len(path)), <<"/">>)

\* Variant: the suffix after the last '.' may contain a separator.
has_ext_AllowSlash(path) ==
    LET index == rfind(path, ".")
    IN  IF index = 0 THEN FALSE
        ELSE SubSeq(path, index + 1, Len(path)) # <<>>

has_ext(path) ==
    LET index == rfind(path, ".")
    IN  IF index = 0 THEN FALSE
        ELSE LET sub == SubSeq(path, index + 1, Len(path))
             IN  sub # <<>> /\ ~Contains(sub, <<"/">>)

(***************************************************************************)
(* path_clean::clean, the call at line 83: merge separators, drop ".",     *)
(* resolve ".." against the preceding segment, never climb above the root. *)
(***************************************************************************)
can_backtrack(segment) == segment \notin {<<".">>, <<".", ".">>}

\* One step of the segment loop: the output stack after `segment`.
clean_step(out, segment, is_root, num_segments) ==
    IF segment = <<>> THEN out
    ELSE IF segment = <<".">> THEN
        IF num_segments = 1 THEN Append(out, segment) ELSE out
    ELSE IF segment = <<".", ".">> THEN
        IF out # <<>> THEN
            IF can_backtrack(out[Len(out)]) THEN SubSeq(out, 1, Len(out) - 1)
            ELSE Append(out, segment)
        ELSE IF ~is_root THEN Append(out, segment)
        ELSE out
    ELSE Append(out, segment)

RECURSIVE clean_fold(_, _, _, _)
clean_fold(out, segs, is_root, num_segments) ==
    IF segs = <<>> THEN out
    ELSE clean_fold(clean_step(out, Head(segs), is_root, num_segments),
                    Tail(segs), is_root, num_segments)

clean(path) ==
    IF path = <<>> \/ path = <<".">> THEN <<".">>
    ELSE IF path = <<".", ".">> THEN <<".", ".">>
    ELSE IF path = <<"/">> THEN <<"/">>
    ELSE LET is_root == path[1] = "/"
             segs == split(trim_end_matches(path, "/"), "/")
             out == clean_fold(<<>>, segs, is_root, Len(segs))
             out_str == IF is_root THEN <<"/">> \o join(out, "/") ELSE join(out, "/")
         IN  IF out_str = <<>> THEN <<".">> ELSE out_str

(***************************************************************************)
(* The middleware.                                                         *)
(***************************************************************************)
\* Uri::path(): the text before the first '?'.
UriPath(u) ==
    LET i == find(u, "?") IN IF i = 0 THEN u ELSE SubSeq(u, 1, i - 1)

\* PathAndQuery::query(): the text after the first '?', None without a '?'.
UriQuery(u) ==
    LET i == find(u, "?") IN IF i = 0 THEN None ELSE Some(SubSeq(u, i + 1, Len(u)))

\* The URI of a request with path p and query q, as the client writes it.
RequestUri(p, q) ==
    IF q.some THEN p \o <<"?">> \o q.val ELSE p

\* Variant: the doubled-separator test is missing.
FastPath_NoDoubleSlash(original_path) ==
    /\ ~Contains(original_path, <<"/", ".">>)
    /\ has_ext(original_path) # ends_with(original_path, "/")

\* Variant: the dot-segment test is missing.
FastPath_NoDotCheck(original_path) ==
    /\ ~Contains(original_path, <<"/", "/">>)
    /\ has_ext(original_path) # ends_with(original_path, "/")

\* Variant: the dot-segment test looks for "./" instead of "/.".
FastPath_DotSlash(original_path) ==
    /\ ~Contains(original_path, <<".", "/">>)
    /\ ~Contains(original_path, <<"/", "/">>)
    /\ has_ext(original_path) # ends_with(original_path, "/")

\* Variant: the extension/trailing-separator test is missing.
FastPath_NoXor(original_path) ==
    /\ ~Contains(original_path, <<"/", ".">>)
    /\ ~Contains(original_path, <<"/", "/">>)

\* The non-allocating fast path: the condition of the first `if` of call.
FastPath(original_path) ==
    /\ ~Contains(original_path, <<"/", ".">>)
    /\ ~Contains(original_path, <<"/", "/">>)
    /\ has_ext(original_path) # ends_with(original_path, "/")

\* Variant: the root is not exempt from the trailing separator.
Canonicalize_NoRootGuard(original_path) ==
    LET path == clean(original_path)
    IN  IF ends_with(original_path, "/") \/ ~has_ext(path)
        THEN Append(path, "/") ELSE path

\* Variant: the trailing_slash test is negated.
Canonicalize_NegTrailing(original_path) ==
    LET path == clean(original_path)
    IN  IF path # <<"/">> /\ (~ends_with(original_path, "/") \/ ~has_ext(path))
        THEN Append(path, "/") ELSE path

\* The cleaned path with the trailing-separator rule applied.
Canonicalize(original_path) ==
    LET trailing_slash == ends_with(original_path, "/")
        path == clean(original_path)
    IN  IF path # <<"/">> /\ (trailing_slash \/ ~has_ext(path))
        THEN Append(path, "/") ELSE path

\* Variant: an empty query is treated like an absent one.
Target_DropEmptyQuery(path, query) ==
    IF query.some /\ query.val # <<>> THEN path \o <<"?">> \o query.val ELSE path

\* The redirect target: format!("{}?{}", path, q) when the request has a
\* query, the path alone otherwise.
Target(path, query) ==
    IF query.some THEN path \o <<"?">> \o query.val ELSE path

Pass == [kind |-> "pass", location |-> <<>>]
Redirect(target) == [kind |-> "redirect", location |-> target]

\* Variant: the cleaned path is not compared with the original.
SlowPath_AlwaysRedirect(u) ==
    Redirect(Target(Canonicalize(UriPath(u)), UriQuery(u)))

\* call after the fast path declined: clean, compare, redirect or pass.
SlowPath(u) ==
    LET original_path == UriPath(u)
        path == Canonicalize(original_path)
    IN  IF path # original_path
        THEN Redirect(Target(path, UriQuery(u)))
        ELSE Pass

\* CleanPathNormalization::call
call(u) ==
    IF FastPath(UriPath(u)) THEN Pass ELSE SlowPath(u)

NotForwarded == [sent |-> FALSE, uri |-> <<>>]

Init ==
    /\ pc = "idle"
    /\ uri = <<"/">>
    /\ outcome = "none"
    /\ location = <<>>
    /\ forwarded = NotForwarded
    /\ hops = 0

\* A client sends a request with some path and some (or no) query.
Receive ==
    /\ pc = "idle"
    /\ \E p \in Paths, q \in Queries : uri' = RequestUri(p, q)
    /\ pc' = "received"
    /\ outcome' = "none"
    /\ location' = <<>>
    /\ forwarded' = NotForwarded
    /\ hops' = 0

\* The middleware handles the request.
Call ==
    /\ pc = "received"
    /\ LET r == call(uri)
       IN  /\ outcome' = r.kind
           /\ location' = r.location
           /\ forwarded' = IF r.kind = "pass" THEN [sent |-> TRUE, uri |-> uri]
                           ELSE NotForwarded
    /\ pc' = "responded"
    /\ UNCHANGED <<uri, hops>>

\* The client follows the redirect: the Location is the next request.
Follow ==
    /\ pc = "responded"
    /\ outcome = "redirect"
    /\ hops < MaxHops
    /\ uri' = location
    /\ hops' = hops + 1
    /\ pc' = "received"
    /\ outcome' = "none"
    /\ location' = <<>>
    /\ forwarded' = NotForwarded

\* The exchange ends (served downstream, or the redirect is not followed).
Finish ==
    /\ pc = "responded"
    /\ pc' = "idle"
    /\ uri' = <<"/">>
    /\ outcome' = "none"
    /\ location' = <<>>
    /\ forwarded' = NotForwarded
    /\ hops' = 0

Next == Receive \/ Call \/ Follow \/ Finish

Spec == Init /\ [][Next]_vars

(***************************************************************************)
(* Vocabulary of the properties.                                           *)
(***************************************************************************)
Responded == pc = "responded"
ReqPath == UriPath(uri)
ReqQuery == UriQuery(uri)

\* The final segment: the text after the last separator.
LastSegment(p) == SubSeq(p, rfind(p, "/") + 1, Len(p))

\* ExtensionFlag of the data model: the final segment holds a '.' and the
\* text after its last '.' is not empty.
ExtensionFlag(p) ==
    LET seg == LastSegment(p)
    IN  \E i \in 1..Len(seg) :
            /\ seg[i] = "."
            /\ i < Len(seg)
            /\ \A j \in (i + 1)..Len(seg) : seg[j] # "."

\* Shape of a canonical path: one leading separator, no empty segment, no
\* "." or ".." segment.
Shape(p) ==
    /\ Len(p) >= 1 /\ p[1] = "/"
    /\ ~Contains(p, <<"/", "/">>)
    /\ ~Contains(Append(p, "/"), <<"/", ".", "/">>)
    /\ ~Contains(Append(p, "/"), <<"/", ".", ".", "/">>)

\* Canonical form of the data model: the shape, and a trailing separator
\* exactly when the final segment has no extension.
CanonicalForm(p) ==
    /\ Shape(p)
    /\ ends_with(p, "/") # ExtensionFlag(p)

\* Only separators and ".." segments.
OnlyDotDot(p) ==
    LET segs == split(p, "/")
    IN  \A i \in 1..Len(segs) : segs[i] \in {<<>>, <<".", ".">>}

\* C1: call answers with a redirect exactly when the canonical path differs
\* from the raw path; otherwise the original request is handed unmodified to
\* the downstream service and nothing is redirected.
C1_RedirectIffChanged ==
    Responded =>
        /\ outcome \in {"pass", "redirect"}
        /\ (outcome = "redirect") <=> (Canonicalize(ReqPath) # ReqPath)
        /\ outcome = "redirect" => forwarded = NotForwarded
        /\ outcome = "pass" =>
               /\ forwarded = [sent |-> TRUE, uri |-> uri]
               /\ location = <<>>

\* C1 witness: a request the fast path declined and the comparison passed.
C1_Witness ==
    /\ Responded
    /\ ~FastPath(ReqPath)
    /\ outcome = "pass"
    /\ forwarded.sent

\* C2: the canonical path, and the path of every redirect target, begins
\* with exactly one separator and has no empty, "." or ".." segment.
C2_CanonicalShape ==
    Responded =>
        /\ Shape(Canonicalize(ReqPath))
        /\ outcome = "redirect" => Shape(UriPath(location))

\* C2 witness: a redirect of a path with a doubled separator and a dot
\* segment.
C2_Witness ==
    /\ Responded
    /\ outcome = "redirect"
    /\ Contains(ReqPath, <<"/", "/">>)
    /\ Contains(ReqPath, <<"/", ".", ".", "/">>)

\* C3: canonicalization is idempotent: a path in canonical form is returned
\* unchanged, and canonicalizing the canonical result again changes nothing.
C3_Idempotent ==
    Responded =>
        /\ CanonicalForm(ReqPath) => Canonicalize(ReqPath) = ReqPath
        /\ Canonicalize(Canonicalize(ReqPath)) = Canonicalize(ReqPath)

\* C3 witness: a path that canonicalization changed.
C3_Witness ==
    /\ Responded
    /\ Canonicalize(ReqPath) # ReqPath
    /\ Len(Canonicalize(ReqPath)) > 1

\* C4 as stated: the fast-path detector accepts exactly the paths the
\* canonicalizer returns unchanged.
C4_FastPathIffUnchanged ==
    Responded => (FastPath(ReqPath) <=> Canonicalize(ReqPath) = ReqPath)

\* C4 amended: the detector accepts exactly the paths the canonicalizer
\* returns unchanged that hold no "/." (no segment beginning with a dot).
C4_FastPathIffUnchangedNoDot ==
    Responded =>
        (FastPath(ReqPath) <=>
            (Canonicalize(ReqPath) = ReqPath /\ ~Contains(ReqPath, <<"/", ".">>)))

\* C4 witness: an unchanged path with a dot-prefixed segment, which the
\* detector declines.
C4_Witness ==
    /\ Responded
    /\ Canonicalize(ReqPath) = ReqPath
    /\ Contains(ReqPath, <<"/", ".">>)
    /\ ~FastPath(ReqPath)

\* C5 as stated: an input whose final segment has an extension and that
\* does not end in a separator keeps no trailing separator; every other
\* non-root input ends in a separator.
C5_ExtensionPolicy ==
    Responded =>
        IF ExtensionFlag(ReqPath) /\ ~ends_with(ReqPath, "/")
        THEN ~ends_with(Canonicalize(ReqPath), "/")
        ELSE ReqPath # <<"/">> => ends_with(Canonicalize(ReqPath), "/")

\* C5 amended: as C5, the second half only for inputs whose final segment
\* is neither "." nor "..".
C5_ExtensionPolicyNoDotTail ==
    Responded =>
        IF ExtensionFlag(ReqPath) /\ ~ends_with(ReqPath, "/")
        THEN ~ends_with(Canonicalize(ReqPath), "/")
        ELSE (ReqPath # <<"/">> /\ LastSegment(ReqPath) \notin {<<".">>, <<".", ".">>})
                 => ends_with(Canonicalize(ReqPath), "/")

\* C5 witness: an input ending in a "." segment whose canonical path ends
\* in a segment with an extension.
C5_Witness ==
    /\ Responded
    /\ LastSegment(ReqPath) = <<".">>
    /\ ~ends_with(Canonicalize(ReqPath), "/")

\* C6: a path of separators and ".." segments only canonicalizes to the
\* root: the root itself passes, any other is redirected to the root.
C6_NoUnderflow ==
    (Responded /\ OnlyDotDot(ReqPath)) =>
        /\ Canonicalize(ReqPath) = <<"/">>
        /\ ReqPath = <<"/">> => outcome = "pass"
        /\ ReqPath # <<"/">> =>
               /\ outcome = "redirect"
               /\ UriPath(location) = <<"/">>

\* C6 witness: more ".." segments than the root can absorb, redirected.
C6_Witness ==
    /\ Responded
    /\ ReqPath = <<"/", ".", ".", "/", ".", ".">>
    /\ outcome = "redirect"

\* C7: the redirect target is the canonical path followed by '?' and the
\* original query verbatim; without a query the target has no '?'.
C7_QueryPreserved ==
    (Responded /\ outcome = "redirect") =>
        /\ UriQuery(location) = ReqQuery
        /\ UriPath(location) = Canonicalize(ReqPath)
        /\ ReqQuery.some =>
               location = Canonicalize(ReqPath) \o <<"?">> \o ReqQuery.val
        /\ ~ReqQuery.some =>
               /\ \A i \in 1..Len(location) : location[i] # "?"
               /\ location = Canonicalize(ReqPath)

\* C7 witness: a redirect of a request whose query is present and empty.
C7_Witness ==
    /\ Responded
    /\ outcome = "redirect"
    /\ ReqQuery = Some(<<>>)

\* C8: the response equals the one obtained without the fast path, by always
\* canonicalizing and comparing.
C8_FastPathIsOptimization ==
    Responded =>
        /\ [kind |-> outcome, location |-> location] = SlowPath(uri)
        /\ FastPath(ReqPath) => Canonicalize(ReqPath) = ReqPath

\* C8 witness: a request the fast path accepted.
C8_Witness ==
    /\ Responded
    /\ FastPath(ReqPath)
    /\ Len(ReqPath) > 1
    /\ outcome = "pass"

\* C9: when the cleaned path is not the root, the canonical path is the
\* cleaned path plus one separator exactly when the raw path ended with a
\* separator or the cleaned path's final segment has no extension; has_ext
\* agrees with the ExtensionFlag of the final segment.
C9_TrailingSeparatorRule ==
    Responded =>
        /\ has_ext(ReqPath) = ExtensionFlag(ReqPath)
        /\ has_ext(clean(ReqPath)) = ExtensionFlag(clean(ReqPath))
        /\ clean(ReqPath) # <<"/">> =>
               Canonicalize(ReqPath) =
                   IF ends_with(ReqPath, "/") \/ ~ExtensionFlag(clean(ReqPath))
                   THEN Append(clean(ReqPath), "/")
                   ELSE clean(ReqPath)

\* C9 witness: a final segment ending in a bare dot gains a separator.
C9_Witness ==
    /\ Responded
    /\ ReqPath = <<"/", "a", ".">>
    /\ outcome = "redirect"
    /\ UriPath(location) = <<"/", "a", ".", "/">>

\* C10: a request that follows a redirect is passed through, so a chain of
\* followed redirects holds at most one redirect.
C10_NoRedirectLoop ==
    /\ hops <= 1
    /\ (Responded /\ hops >= 1) =>
           /\ outcome = "pass"
           /\ forwarded = [sent |-> TRUE, uri |-> uri]

\* C10 witness: the followed redirect target reached the downstream service.
C10_Witness ==
    /\ Responded
    /\ hops = 1
    /\ outcome = "pass"

====
